---- MODULE Spec2Model ----
(***************************************************************************)
(* Model of spotlight.py: get_total_pages, get_page and get_image_info.    *)
(*                                                                         *)
(* A Python str is a sequence of one-character strings, so that strip,     *)
(* split, rsplit, rstrip, replace, isdigit, startswith and int() are       *)
(* computed symbol by symbol.  A symbol is one character; the character    *)
(* U+00B2 (superscript two) is written "sup2", and in a URL a fixed run of *)
(* characters that the code only tests as a whole ("/images/",             *)
(* "wp-content/uploads") is one symbol.  An optional value (Python None or *)
(* a value) is a sequence of length at most one: None is << >>, a value v  *)
(* is << v >>.                                                             *)
(***************************************************************************)
EXTENDS Integers, Sequences, FiniteSets, TLC

\* pc .. result are the state of one call; globals holds the module-level
\* names BASE_URL and HEADERS, and calls the state of each of the calls that
\* run concurrently
VARIABLES pc, op, arg, request, fetches, response, exc, result, globals, calls

vars == << pc, op, arg, request, fetches, response, exc, result, globals, calls >>

---------------------------------------------------------------------------
(* Optional values *)

None == << >>

Some(v) == << v >>

---------------------------------------------------------------------------
(* Python str methods *)

Whitespace == { " ", "\n" }

DecimalDigits == << "0", "1", "2", "3", "4", "5", "6", "7", "8", "9" >>

IsDecimal(c) == \E i \in 1..Len(DecimalDigits) : DecimalDigits[i] = c

DigitVal(c) == (CHOOSE i \in 1..Len(DecimalDigits) : DecimalDigits[i] = c) - 1

\* characters for which str.isdigit() is true: the decimal digits and the
\* digit characters that are not decimal, such as superscript two
IsDigitChar(c) == IsDecimal(c) \/ c = "sup2"

RECURSIVE LStrip(_)
LStrip(s) ==
    IF s = << >> THEN s
    ELSE IF Head(s) \in Whitespace THEN LStrip(Tail(s)) ELSE s

RECURSIVE RStrip(_)
RStrip(s) ==
    IF s = << >> THEN s
    ELSE IF s[Len(s)] \in Whitespace THEN RStrip(SubSeq(s, 1, Len(s) - 1)) ELSE s

\* str.strip()
Strip(s) == LStrip(RStrip(s))

\* str.replace(c, "")
RECURSIVE Remove(_, _)
Remove(s, c) ==
    IF s = << >> THEN s
    ELSE IF Head(s) = c THEN Remove(Tail(s), c)
    ELSE << Head(s) >> \o Remove(Tail(s), c)

\* str.isdigit()
IsDigit(s) == s # << >> /\ \A i \in 1..Len(s) : IsDigitChar(s[i])

\* str.startswith(p)
StartsWith(s, p) == Len(s) >= Len(p) /\ SubSeq(s, 1, Len(p)) = p

\* str.split(c) for a one-character separator c
RECURSIVE Split(_, _)
Split(s, c) ==
    LET at == { i \in 1..Len(s) : s[i] = c }
    IN  IF at = {} THEN << s >>
        ELSE LET i == CHOOSE k \in at : \A m \in at : k <= m
             IN  << SubSeq(s, 1, i - 1) >> \o Split(SubSeq(s, i + 1, Len(s)), c)

\* str.rsplit(None, 1)
RSplit1(s) ==
    LET t  == RStrip(s)
        ws == { i \in 1..Len(t) : t[i] \in Whitespace }
    IN  IF t = << >> THEN << >>
        ELSE IF ws = {} THEN << t >>
        ELSE LET j    == CHOOSE k \in ws : \A m \in ws : k >= m
                 word == SubSeq(t, j + 1, Len(t))
                 rest == RStrip(SubSeq(t, 1, j))
             IN  IF rest = << >> THEN << word >> ELSE << rest, word >>

\* str.rstrip(c)
RECURSIVE RStripChar(_, _)
RStripChar(s, c) ==
    IF s = << >> THEN s
    ELSE IF s[Len(s)] = c THEN RStripChar(SubSeq(s, 1, Len(s) - 1), c) ELSE s

RECURSIVE DigitsValue(_)
DigitsValue(s) ==
    IF s = << >> THEN 0
    ELSE 10 * DigitsValue(SubSeq(s, 1, Len(s) - 1)) + DigitVal(s[Len(s)])

\* int(s): None when Python raises ValueError, else the value.  Python
\* accepts surrounding whitespace, one sign, and single underscores between
\* decimal digits.
IntParse(s) ==
    LET t      == Strip(s)
        signed == t # << >> /\ Head(t) \in { "+", "-" }
        body   == IF signed THEN Tail(t) ELSE t
        n      == Len(body)
        wellFormed ==
            /\ n > 0
            /\ \A i \in 1..n : IsDecimal(body[i]) \/ body[i] = "_"
            /\ IsDecimal(body[1]) /\ IsDecimal(body[n])
            /\ \A i \in 1..(n - 1) : ~(body[i] = "_" /\ body[i + 1] = "_")
        v      == DigitsValue(Remove(body, "_"))
    IN  IF ~wellFormed THEN None
        ELSE IF signed /\ Head(t) = "-" THEN Some(0 - v) ELSE Some(v)

---------------------------------------------------------------------------
(* Bounded sequences *)

SeqUpTo(S, n) == UNION { [1..k -> S] : k \in 0..n }

\* s in t for strings (the CSS attribute selector [attr*='s'])
Contains(t, s) == \E i \in 1..(Len(t) - Len(s) + 1) : SubSeq(t, i, i + Len(s) - 1) = s

---------------------------------------------------------------------------
(* Module constants *)

BASE_URL == << "https://windows10spotlight.com" >>

HEADERS == [ UserAgent |-> "Mozilla/5.0 Chrome/120.0.0.0" ]

---------------------------------------------------------------------------
(* Documents.  A document is what BeautifulSoup's selectors see of a page: *)
(* its elements by kind, each kind in document order.  An attribute is an  *)
(* optional string; the text of an element is its one text node.           *)

MaxLinks == 2

\* texts of a elements of the root page
LinkTexts ==
    { << "1" >>, << "2" >>, << "1", "0" >>, << "0" >>,
      << "0", ",", "0", "0", "0" >>, << "1", ",", "2", "6", "3" >>,
      << "N", "e", "x", "t" >>, << >>, << "," >>, << " ", "2", "\n" >>,
      << "1", " ", "2" >>, << "sup2" >>, << "-", "1" >> }

\* an a element: nav is whether 'nav.navigation.pagination a.page-numbers'
\* selects it, text is its text node
Anchors == [ nav : BOOLEAN, text : LinkTexts ]

\* a page without any element the three operations look for
EmptyDoc ==
    [ anchors |-> << >>, articles |-> << >>, imgs |-> << >>, h1 |-> << >>,
      h2 |-> << >>, tags |-> << >>, times |-> << >>, dates |-> << >>,
      metas |-> << >> ]

RootDocs == { [ EmptyDoc EXCEPT !.anchors = a ] : a \in SeqUpTo(Anchors, MaxLinks) }

---------------------------------------------------------------------------
(* get_total_pages *)

\* Tag.get_text(strip=True) of an element holding one text node
GetText(text) == Strip(text)

\* soup.select("nav.navigation.pagination a.page-numbers")
RECURSIVE pagination_nav(_)
pagination_nav(anchors) ==
    IF anchors = << >> THEN << >>
    ELSE (IF Head(anchors).nav THEN << Head(anchors) >> ELSE << >>)
         \o pagination_nav(Tail(anchors))

\* text_cleaned without the removal of the commas
text_cleaned_keeps_commas(link) == GetText(link.text)

\* text.replace(",", "")
text_cleaned(link) == Remove(GetText(link.text), ",")

\* the loop that fills page_numbers: the list, or the ValueError that int()
\* raises on a string that isdigit() accepts
RECURSIVE page_numbers(_)
page_numbers(links) ==
    IF links = << >> THEN [ exc |-> None, value |-> << >> ]
    ELSE LET cleaned == text_cleaned(Head(links))
             rest    == page_numbers(Tail(links))
         IN  IF ~IsDigit(cleaned) THEN rest
             ELSE IF IntParse(cleaned) = None
                  THEN [ exc |-> Some("ValueError"), value |-> << >> ]
             ELSE IF rest.exc # None THEN rest
             ELSE [ exc |-> None, value |-> << IntParse(cleaned)[1] >> \o rest.value ]

\* max(seq) of a non-empty list of integers
MaxOf(seq) == CHOOSE m \in { seq[i] : i \in 1..Len(seq) } :
                  \A i \in 1..Len(seq) : seq[i] <= m

\* return max(page_numbers) if page_numbers else 1
total_pages(numbers) == IF numbers # << >> THEN MaxOf(numbers) ELSE 1

---------------------------------------------------------------------------
(* Listing pages *)

MaxArticles == 3

MaxClasses == 2

POST == << "p", "o", "s", "t", "-" >>

\* class tokens of article elements
ClassTokens ==
    { POST \o << "5" >>, POST \o << "0" >>, POST \o << "1", "2" >>, POST,
      POST \o << "a", "b", "c" >>, POST \o << "1", "2", "-", "a", "b", "c" >>,
      POST \o << "o", "t", "h", "e", "r", "-", "1", "0", "0" >>,
      << "s", "o", "m", "e", "-", "o", "t", "h", "e", "r", "-", "c", "l", "a", "s", "s" >>,
      << "t", "y", "p", "e", "-", "p", "o", "s", "t" >>,
      POST \o << "+", "5" >> }

DetailHref == << "https://site", "/images/", "5", "/" >>

TagHref == << "https://site", "/tag/", "x" >>

Thumb1 == [ src |-> Some(<< "https://site/thumb1.jpg" >>), alt |-> Some(<< "abc123" >>) ]

Thumb2 == [ src |-> Some(<< "https://site/thumb2.jpg" >>), alt |-> Some(<< "def456" >>) ]

BareImg == [ src |-> None, alt |-> None ]

DetailHref2 == << "https://site", "/images/", "6", "/" >>

ImgNoAlt == [ src |-> Some(<< "https://site/thumb3.jpg" >>), alt |-> None ]

\* the descendants of an article: hrefs are the href attributes of its a
\* elements (None for an a without href), imgs its img elements
ArticleBodies ==
    { [ hrefs |-> << >>, imgs |-> << >> ],
      [ hrefs |-> << Some(DetailHref) >>, imgs |-> << Thumb1 >> ],
      [ hrefs |-> << Some(TagHref), None, Some(DetailHref) >>,
        imgs |-> << BareImg, Thumb2 >> ],
      [ hrefs |-> << Some(DetailHref), Some(DetailHref2) >>,
        imgs |-> << Thumb2, Thumb1 >> ],
      [ hrefs |-> << Some(TagHref) >>, imgs |-> << ImgNoAlt >> ] }

Article(classes, body) ==
    [ class |-> classes, hrefs |-> body.hrefs, imgs |-> body.imgs ]

\* articles that pages of several articles are made of
CoreArticles ==
    { Article(<< POST \o << "5" >>, << "t", "y", "p", "e", "-", "p", "o", "s", "t" >> >>,
              [ hrefs |-> << Some(DetailHref) >>, imgs |-> << Thumb1 >> ]),
      Article(<< POST \o << "1", "2" >> >>, [ hrefs |-> << >>, imgs |-> << >> ]),
      Article(<< << "t", "y", "p", "e", "-", "p", "o", "s", "t" >> >>,
              [ hrefs |-> << Some(DetailHref) >>, imgs |-> << Thumb1 >> ]),
      Article(<< POST \o << "5" >> >>,
              [ hrefs |-> << Some(TagHref) >>, imgs |-> << Thumb2 >> ]),
      Article(<< POST \o << "a", "b", "c" >> >>,
              [ hrefs |-> << Some(DetailHref) >>, imgs |-> << Thumb2 >> ]) }

ListingDocs ==
    { [ EmptyDoc EXCEPT !.articles = a ] : a \in SeqUpTo(CoreArticles, MaxArticles) }
    \cup { [ EmptyDoc EXCEPT !.articles = << Article(c, b) >> ] :
             c \in SeqUpTo(ClassTokens, MaxClasses), b \in ArticleBodies }

---------------------------------------------------------------------------
(* get_page *)

PageArgs == { 1, 2 }

\* page_url without the special case of page 1
page_url_always_paged(n) == BASE_URL \o << "/page/", ToString(n) >>

\* the URL of page n
page_url(n) == IF n = 1 THEN BASE_URL ELSE BASE_URL \o << "/page/", ToString(n) >>

\* the loop over the class tokens of an article: the first token that starts
\* with "post-" and whose second "-"-separated piece int() accepts gives the
\* id; None when no token does
RECURSIVE image_id(_)
image_id(classes) ==
    IF classes = << >> THEN None
    ELSE LET cls == Head(classes)
         IN  IF StartsWith(cls, POST) /\ IntParse(Split(cls, "-")[2]) # None
             THEN IntParse(Split(cls, "-")[2])
             ELSE image_id(Tail(classes))

\* detail_url taken from the first a element, whatever its href
detail_url_first_link(hrefs) == IF hrefs = << >> THEN None ELSE Head(hrefs)

\* article.select_one("a[href*='/images/']"), then .get("href")
RECURSIVE detail_url(_)
detail_url(hrefs) ==
    IF hrefs = << >> THEN None
    ELSE IF Head(hrefs) # None /\ Contains(Head(hrefs)[1], << "/images/" >>)
         THEN Head(hrefs)
         ELSE detail_url(Tail(hrefs))

\* img = article.select_one("img"); img.get("src") if img else None
thumbnail_url(imgs) == IF imgs # << >> THEN Head(imgs).src ELSE None

\* img.get("alt") if img else None
thumbnail_hash(imgs) == IF imgs # << >> THEN Head(imgs).alt ELSE None

\* the dict appended for an article with an id
Entry(article) ==
    [ id |-> image_id(article.class)[1],
      detail_url |-> detail_url(article.hrefs),
      thumbnail_url |-> thumbnail_url(article.imgs),
      thumbnail_hash |-> thumbnail_hash(article.imgs) ]

\* images built by inserting each entry at the front
RECURSIVE images_prepended(_)
images_prepended(articles) ==
    IF articles = << >> THEN << >>
    ELSE IF image_id(Head(articles).class) = None THEN images_prepended(Tail(articles))
    ELSE images_prepended(Tail(articles)) \o << Entry(Head(articles)) >>

\* the loop over the articles: images, in the order of the appends
RECURSIVE images(_)
images(articles) ==
    IF articles = << >> THEN << >>
    ELSE IF image_id(Head(articles).class) = None THEN images(Tail(articles))
    ELSE << Entry(Head(articles)) >> \o images(Tail(articles))

---------------------------------------------------------------------------
(* Detail pages *)

MaxImgs == 3

MaxEntries == 2

\* entries of a srcset attribute, written between its commas
SrcsetEntries ==
    { << "a", " ", "1", "w" >>,
      << "b", " ", "2", "w" >>,
      << "\n", " ", "c", " ", " ", "2", "w", " " >>,
      << "d", " ", "x", "w" >>,
      << "e" >>,
      << " " >>,
      << "g", " ", "-", "1", "w" >>,
      << "h", " ", "2", "w", "w" >>,
      << "i", " ", "3" >>,
      << "j", " ", "2", "x" >> }

\* ",".join(entries)
RECURSIVE Join(_)
Join(entries) ==
    IF entries = << >> THEN << >>
    ELSE IF Len(entries) = 1 THEN entries[1]
    ELSE entries[1] \o << "," >> \o Join(Tail(entries))

\* srcset attributes: absent, or up to MaxEntries entries (none: srcset="")
Srcsets == { None } \cup { Some(Join(e)) : e \in SeqUpTo(SrcsetEntries, MaxEntries) }

UploadSrc(name) == << "https://site/", "wp-content/uploads", "/", name >>

Img(src, srcset, alt) == [ src |-> src, srcset |-> srcset, alt |-> alt ]

\* img elements that pages of several images are made of
CoreImgs ==
    { Img(Some(UploadSrc("m")), None, Some(<< "x" >>)),
      Img(Some(UploadSrc("n")),
          Some(<< "a", " ", "1", "w", ",", "b", " ", "2", "w" >>), None),
      Img(Some(<< "https://cdn/", "banner" >>), Some(<< "b", " ", "2", "w" >>),
          Some(<< "y" >>)),
      Img(Some(UploadSrc("o")), Some(<< "d", " ", "x", "w" >>), Some(<< "z" >>)),
      Img(None, Some(<< "a", " ", "1", "w" >>), Some(<< "x" >>)),
      Img(Some(<< "https://site/", "WP-CONTENT/UPLOADS", "/", "p" >>), None, None),
      Img(Some(UploadSrc("q")), Some(<< >>), Some(<< "y" >>)) }

PlainArticle(classes) == [ class |-> classes, hrefs |-> << >>, imgs |-> << >> ]

\* articles that follow the first one
LaterArticles ==
    { PlainArticle(<< POST \o << "1", "2" >> >>),
      PlainArticle(<< << "t", "y", "p", "e", "-", "p", "o", "s", "t" >> >>) }

Time(text, datetime) == [ text |-> text, datetime |-> datetime ]

Meta(property, content) == [ property |-> property, content |-> content ]

\* the headings, tags, dates and meta elements of a page
HeadDocs ==
    { [ EmptyDoc EXCEPT !.h1 = a, !.h2 = b, !.tags = c, !.times = d,
                        !.dates = e, !.metas = f ] :
        a \in { << >>, << << " ", "T", "\n" >>, << "U" >> >> },
        b \in { << >>, << << "S" >> >> },
        c \in { << >>, << << "x" >>, << " ", "y" >>, << "x" >> >> },
        d \in { << >>, << Time(<< "J", "a", "n" >>, Some(<< "2024" >>)),
                          Time(<< "F", "e", "b" >>, None) >> },
        e \in { << >>, << Time(<< " ", "M", "a", "r" >>, None) >> },
        f \in { << >>,
                << Meta(Some(<< "og:", "title" >>), Some(<< "A" >>)),
                   Meta(Some(<< "og:", "image" >>), None),
                   Meta(Some(<< "og:", "title" >>), Some(<< "B" >>)),
                   Meta(Some(<< "og:", "type" >>), Some(<< >>)),
                   Meta(Some(<< "description" >>), Some(<< "C" >>)),
                   Meta(None, Some(<< "D" >>)) >> } }

MaxMetas == 3

\* meta elements that pages of several meta elements are made of
CoreMetas ==
    { Meta(Some(<< "og:", "title" >>), Some(<< "A" >>)),
      Meta(Some(<< "og:", "title" >>), Some(<< "B" >>)),
      Meta(Some(<< "og:", "title" >>), None),
      Meta(Some(<< "og:", "title" >>), Some(<< >>)),
      Meta(Some(<< "og:", "image" >>), Some(<< "C" >>)),
      Meta(Some(<< "description" >>), Some(<< "D" >>)),
      Meta(None, Some(<< "E" >>)) }

MetaDocs == { [ EmptyDoc EXCEPT !.metas = m ] : m \in SeqUpTo(CoreMetas, MaxMetas) }

MaxTimes == 2

\* time and span.date elements that pages of several of them are made of
CoreTimes ==
    { Time(<< "J", "a", "n" >>, Some(<< "2024" >>)),
      Time(<< " ", "F", "e", "b", "\n" >>, None),
      Time(<< >>, Some(<< "2025" >>)) }

DateDocs ==
    { [ EmptyDoc EXCEPT !.times = t, !.dates = d ] :
        t \in SeqUpTo(CoreTimes, MaxTimes), d \in SeqUpTo(CoreTimes, MaxTimes) }

MaxHeadings == 2

\* texts of h1 and h2 elements
HeadingTexts == { << >>, << " ", "T", "\n" >>, << "U" >> }

TitleDocs ==
    { [ EmptyDoc EXCEPT !.h1 = a, !.h2 = b ] :
        a \in SeqUpTo(HeadingTexts, MaxHeadings), b \in SeqUpTo(HeadingTexts, MaxHeadings) }

DetailDocs ==
    HeadDocs
    \cup MetaDocs
    \cup DateDocs
    \cup TitleDocs
    \cup { [ EmptyDoc EXCEPT !.articles = << PlainArticle(c) >> \o later ] :
             c \in SeqUpTo(ClassTokens, MaxClasses),
             later \in SeqUpTo(LaterArticles, MaxArticles - 1) }
    \cup { [ EmptyDoc EXCEPT !.imgs = i ] : i \in SeqUpTo(CoreImgs, MaxImgs) }
    \cup { [ EmptyDoc EXCEPT !.articles = << PlainArticle(<< POST \o << "5" >> >>) >>,
                             !.imgs = << Img(Some(UploadSrc("r")), srcset, alt) >> ] :
             srcset \in Srcsets, alt \in { None, Some(<< "x" >>) } }

---------------------------------------------------------------------------
(* get_image_info *)

ImageIds == { 7, 999 }

\* the URL of the detail page of image_id
image_url(image_id_arg) == BASE_URL \o << "/images/", ToString(image_id_arg) >>

\* Python truth of an optional string: None and "" are false
Truthy(s) == s # None /\ s[1] # << >>

\* the loop over the class tokens of the first article
RECURSIVE post_id_of(_)
post_id_of(classes) ==
    IF classes = << >> THEN None
    ELSE LET cls == Head(classes)
         IN  IF StartsWith(cls, POST) /\ IntParse(Split(cls, "-")[2]) # None
             THEN IntParse(Split(cls, "-")[2])
             ELSE post_id_of(Tail(classes))

\* post_id taken from the first article that gives one
RECURSIVE post_id_any_article(_)
post_id_any_article(articles) ==
    IF articles = << >> THEN None
    ELSE IF post_id_of(Head(articles).class) # None
         THEN post_id_of(Head(articles).class)
         ELSE post_id_any_article(Tail(articles))

\* article = soup.select_one("article"); post_id from its classes, if any
post_id(articles) ==
    IF articles = << >> THEN None ELSE post_id_of(Head(articles).class)

\* post_id or image_id: None and 0 are false
returned_id(postId, image_id_arg) ==
    IF postId # None /\ postId[1] # 0 THEN postId[1] ELSE image_id_arg

\* title that passes over an h1 without text
title_skips_empty_h1(soup) ==
    IF soup.h1 # << >> /\ GetText(Head(soup.h1)) # << >>
    THEN Some(GetText(Head(soup.h1)))
    ELSE IF soup.h2 # << >> THEN Some(GetText(Head(soup.h2)))
    ELSE None

\* soup.select_one("h1") or soup.select_one("h2"); a Tag is always true
title(soup) ==
    IF soup.h1 # << >> THEN Some(GetText(Head(soup.h1)))
    ELSE IF soup.h2 # << >> THEN Some(GetText(Head(soup.h2)))
    ELSE None

\* [tag.get_text(strip=True) for tag in soup.select("[rel='tag']")]
tags(soup) == [ i \in 1..Len(soup.tags) |-> GetText(soup.tags[i]) ]

\* date_elem that looks for span.date first
date_elem_prefers_span(soup) ==
    IF soup.dates # << >> THEN Some(Head(soup.dates))
    ELSE IF soup.times # << >> THEN Some(Head(soup.times))
    ELSE None

\* the first time element, else the first span.date, else None
date_elem(soup) ==
    IF soup.times # << >> THEN Some(Head(soup.times))
    ELSE IF soup.dates # << >> THEN Some(Head(soup.dates))
    ELSE None

date(soup) ==
    IF date_elem(soup) # None THEN Some(GetText(date_elem(soup)[1].text)) ELSE None

datetime_attr(soup) ==
    IF date_elem(soup) # None THEN date_elem(soup)[1].datetime ELSE None

\* og_metadata that keeps the first content of a property
RECURSIVE og_metadata_first_wins(_, _)
og_metadata_first_wins(metas, acc) ==
    IF metas = << >> THEN acc
    ELSE LET meta == Head(metas)
             selected == meta.property # None /\ StartsWith(meta.property[1], << "og:" >>)
         IN  IF selected /\ Truthy(meta.content) /\ meta.property[1] \notin DOMAIN acc
             THEN og_metadata_first_wins(Tail(metas),
                      [ k \in DOMAIN acc \cup { meta.property[1] } |->
                          IF k = meta.property[1] THEN meta.content[1] ELSE acc[k] ])
             ELSE og_metadata_first_wins(Tail(metas), acc)

\* the loop over soup.select("meta[property^='og:']"): a dict, as a function
RECURSIVE og_metadata(_, _)
og_metadata(metas, acc) ==
    IF metas = << >> THEN acc
    ELSE LET meta == Head(metas)
             selected == meta.property # None /\ StartsWith(meta.property[1], << "og:" >>)
         IN  IF selected /\ Truthy(meta.property) /\ Truthy(meta.content)
             THEN og_metadata(Tail(metas),
                      [ k \in DOMAIN acc \cup { meta.property[1] } |->
                          IF k = meta.property[1] THEN meta.content[1] ELSE acc[k] ])
             ELSE og_metadata(Tail(metas), acc)

\* soup.select("img[src*='wp-content/uploads']")
RECURSIVE img_elements(_)
img_elements(imgs) ==
    IF imgs = << >> THEN << >>
    ELSE (IF Head(imgs).src # None
             /\ Contains(Head(imgs).src[1], << "wp-content/uploads" >>)
          THEN << Head(imgs) >> ELSE << >>)
         \o img_elements(Tail(imgs))

\* the loop over srcset.split(","): the (url, width) pairs that parse
RECURSIVE entries(_)
entries(pieces) ==
    IF pieces = << >> THEN << >>
    ELSE LET entry == Strip(Head(pieces))
             parts == RSplit1(entry)
             width == IntParse(RStripChar(parts[2], "w"))
         IN  IF entry = << >> THEN entries(Tail(pieces))
             ELSE IF Len(parts) = 2 /\ width # None
                  THEN << [ url |-> parts[1], width |-> width[1] ] >>
                       \o entries(Tail(pieces))
             ELSE entries(Tail(pieces))

\* highest_res that keeps the last entry of the largest width
highest_res_last_max(parsed) ==
    parsed[CHOOSE i \in 1..Len(parsed) :
              /\ \A j \in 1..Len(parsed) : parsed[j].width <= parsed[i].width
              /\ \A j \in (i + 1)..Len(parsed) : parsed[j].width < parsed[i].width]

\* highest_res without the comparison of the widths
highest_res_first_entry(parsed) == parsed[1]

\* max(entries, key=lambda x: x[1]): the first entry of the largest width
highest_res(parsed) ==
    parsed[CHOOSE i \in 1..Len(parsed) :
              /\ \A j \in 1..Len(parsed) : parsed[j].width <= parsed[i].width
              /\ \A j \in 1..(i - 1) : parsed[j].width < parsed[i].width]

\* img.get("alt", "")
alt_of(img) == IF img.alt # None THEN img.alt[1] ELSE << >>

\* the body of the loop over img_elements: what one element appends
variants(img) ==
    IF Truthy(img.srcset)
    THEN LET parsed == entries(Split(img.srcset[1], ","))
         IN  IF parsed # << >>
             THEN << [ url |-> highest_res(parsed).url,
                       width |-> Some(highest_res(parsed).width),
                       alt |-> alt_of(img) ] >>
             ELSE << >>
    ELSE IF Truthy(img.src)
         THEN << [ url |-> img.src[1], width |-> None, alt |-> alt_of(img) ] >>
         ELSE << >>

\* all_images kept sorted by width, widest first, None last
WidthKey(v) == IF v.width = None THEN 0 - 1 ELSE v.width[1]

RECURSIVE InsertByWidth(_, _)
InsertByWidth(v, s) ==
    IF s = << >> THEN << v >>
    ELSE IF WidthKey(v) >= WidthKey(Head(s)) THEN << v >> \o s
    ELSE << Head(s) >> \o InsertByWidth(v, Tail(s))

RECURSIVE all_images_widest_first(_)
all_images_widest_first(elements) ==
    IF elements = << >> THEN << >>
    ELSE LET rest == all_images_widest_first(Tail(elements))
             vs   == variants(Head(elements))
         IN  IF vs = << >> THEN rest ELSE InsertByWidth(vs[1], rest)

\* the loop over img_elements: all_images, in the order of the appends
RECURSIVE all_images(_)
all_images(elements) ==
    IF elements = << >> THEN << >>
    ELSE variants(Head(elements)) \o all_images(Tail(elements))

\* full_resolution_url taken from the last image
full_resolution_url_last(images_found) ==
    IF images_found # << >> THEN Some(images_found[Len(images_found)].url) ELSE None

\* all_images[0]["url"] if all_images else None
full_resolution_url(images_found) ==
    IF images_found # << >> THEN Some(images_found[1].url) ELSE None

\* the dict that get_image_info returns
image_info(soup, image_id_arg) ==
    [ id |-> returned_id(post_id(soup.articles), image_id_arg),
      title |-> title(soup),
      full_resolution_url |-> full_resolution_url(all_images(img_elements(soup.imgs))),
      tags |-> tags(soup),
      date |-> date(soup),
      datetime |-> datetime_attr(soup),
      og_metadata |-> og_metadata(soup.metas, << >>),
      all_images |-> all_images(img_elements(soup.imgs)) ]

---------------------------------------------------------------------------
(* The call: an operation builds its URL, fetches once with requests.get,  *)
(* checks the status with raise_for_status, parses and returns.  pc is the *)
(* position of the call; an exception that nothing catches ends it.        *)

Statuses == { 200, 404, 500 }

\* Response.raise_for_status() raises HTTPError for a 4xx or 5xx status
IsErrorStatus(status) == status >= 400 /\ status < 600

NetworkErrors == { "ConnectionError", "Timeout" }

HTTPError(status) == << "HTTPError", status >>

Request(url) == [ url |-> url, headers |-> HEADERS ]

NumThreads == 2

\* the threads that call the operations at the same time
Threads == 1..NumThreads

\* the module-level names, as the import leaves them
ModuleGlobals == [ BASE_URL |-> BASE_URL, HEADERS |-> HEADERS ]

\* the state of a call that has not started
IdleCall ==
    [ pc |-> "idle", op |-> "none", arg |-> None, url |-> None, request |-> None,
      fetches |-> 0, response |-> None, exc |-> None, result |-> None ]

Init ==
    /\ pc = "idle"
    /\ op = "none"
    /\ arg = None
    /\ request = None
    /\ fetches = 0
    /\ response = None
    /\ exc = None
    /\ result = None
    /\ globals = ModuleGlobals
    /\ calls = [ t \in Threads |-> IdleCall ]

\* def get_total_pages(): the URL is BASE_URL
get_total_pages ==
    /\ pc = "idle"
    /\ pc' = "requests_get"
    /\ op' = "get_total_pages"
    /\ arg' = None
    /\ request' = Some(Request(BASE_URL))
    /\ UNCHANGED << fetches, response, exc, result, globals, calls >>

\* def get_page(n): the URL is BASE_URL for page 1, BASE_URL/page/n otherwise
get_page ==
    /\ pc = "idle"
    /\ \E n \in PageArgs :
        /\ arg' = Some(n)
        /\ request' = Some(Request(page_url(n)))
    /\ pc' = "requests_get"
    /\ op' = "get_page"
    /\ UNCHANGED << fetches, response, exc, result, globals, calls >>

\* def get_image_info(image_id): the URL is BASE_URL/images/image_id
get_image_info ==
    /\ pc = "idle"
    /\ \E id \in ImageIds :
        /\ arg' = Some(id)
        /\ request' = Some(Request(image_url(id)))
    /\ pc' = "requests_get"
    /\ op' = "get_image_info"
    /\ UNCHANGED << fetches, response, exc, result, globals, calls >>

\* the pages the site can answer an operation's request with
Pages(operation) ==
    IF operation = "get_total_pages" THEN RootDocs
    ELSE IF operation = "get_page" THEN ListingDocs
    ELSE DetailDocs

\* requests.get(url, headers=HEADERS): a network error is raised to the
\* caller, otherwise the response is kept
requests_get ==
    /\ pc = "requests_get"
    /\ fetches' = fetches + 1
    /\ \/ \E e \in NetworkErrors :
            /\ pc' = "raised"
            /\ exc' = Some(e)
            /\ UNCHANGED response
       \/ \E status \in Statuses :
            \E text \in (IF IsErrorStatus(status) THEN { EmptyDoc } ELSE Pages(op)) :
                /\ pc' = "raise_for_status"
                /\ response' = Some([ status |-> status, text |-> text ])
                /\ UNCHANGED exc
    /\ UNCHANGED << op, arg, request, result, globals, calls >>

\* the step without the call of raise_for_status
raise_for_status_skipped ==
    /\ pc = "raise_for_status"
    /\ pc' = "parse"
    /\ UNCHANGED << op, arg, request, fetches, response, exc, result, globals, calls >>

\* response.raise_for_status(): its HTTPError is raised to the caller
raise_for_status ==
    /\ pc = "raise_for_status"
    /\ IF IsErrorStatus(response[1].status)
       THEN /\ pc' = "raised"
            /\ exc' = Some(HTTPError(response[1].status))
       ELSE /\ pc' = "parse"
            /\ UNCHANGED exc
    /\ UNCHANGED << op, arg, request, fetches, response, result, globals, calls >>

\* the end of a parse: the value is returned, or the exception is raised
Finish(outcome) ==
    /\ IF outcome.exc # None
       THEN pc' = "raised" /\ exc' = outcome.exc /\ UNCHANGED result
       ELSE pc' = "returned" /\ result' = Some(outcome.value) /\ UNCHANGED exc
    /\ UNCHANGED << op, arg, request, fetches, response, globals, calls >>

\* get_total_pages after the fetch: BeautifulSoup, select, loop, max
get_total_pages_parse ==
    /\ pc = "parse"
    /\ op = "get_total_pages"
    /\ LET soup    == response[1].text
           numbers == page_numbers(pagination_nav(soup.anchors))
       IN  Finish(IF numbers.exc # None THEN numbers
                  ELSE [ exc |-> None, value |-> total_pages(numbers.value) ])

\* get_page after the fetch: BeautifulSoup, select("article"), loop
get_page_parse ==
    /\ pc = "parse"
    /\ op = "get_page"
    /\ LET soup == response[1].text
       IN  Finish([ exc |-> None, value |-> images(soup.articles) ])

\* get_image_info after the fetch: BeautifulSoup, the extractions, the dict
get_image_info_parse ==
    /\ pc = "parse"
    /\ op = "get_image_info"
    /\ LET soup == response[1].text
       IN  Finish([ exc |-> None, value |-> image_info(soup, arg[1]) ])

NextTotalPages ==
    \/ get_total_pages
    \/ requests_get
    \/ raise_for_status
    \/ get_total_pages_parse

SpecTotalPages == Init /\ [][NextTotalPages]_vars

NextPage ==
    \/ get_page
    \/ requests_get
    \/ raise_for_status
    \/ get_page_parse

SpecPage == Init /\ [][NextPage]_vars

NextImageInfo ==
    \/ get_image_info
    \/ requests_get
    \/ raise_for_status
    \/ get_image_info_parse

SpecImageInfo == Init /\ [][NextImageInfo]_vars

Next ==
    \/ get_total_pages
    \/ get_page
    \/ get_image_info
    \/ requests_get
    \/ raise_for_status
    \/ get_total_pages_parse
    \/ get_page_parse
    \/ get_image_info_parse

Spec == Init /\ [][Next]_vars

(***************************************************************************)
(* Concurrent calls.  Each thread runs one call; its locals (url,          *)
(* response, soup, the result under construction) are in calls[t].  The    *)
(* only names the calls share are the module-level BASE_URL and HEADERS,   *)
(* read where the code reads them: BASE_URL when the URL is built, HEADERS *)
(* when requests.get is called.  The steps of different threads            *)
(* interleave in every order.                                              *)
(***************************************************************************)

\* the calls a thread can make
ThreadCalls ==
    { [ op |-> "get_total_pages", arg |-> None ] }
    \cup { [ op |-> "get_page", arg |-> Some(n) ] : n \in PageArgs }
    \cup { [ op |-> "get_image_info", arg |-> Some(id) ] : id \in ImageIds }

\* the URL an operation builds from the module-level BASE_URL it reads
thread_url(base, operation, a) ==
    IF operation = "get_total_pages" THEN base
    ELSE IF operation = "get_page"
         THEN (IF a[1] = 1 THEN base ELSE base \o << "/page/", ToString(a[1]) >>)
    ELSE base \o << "/images/", ToString(a[1]) >>

\* the pages the site answers concurrent requests with
ConcurrentPages(operation) ==
    IF operation = "get_total_pages"
    THEN { [ EmptyDoc EXCEPT !.anchors = << [ nav |-> TRUE, text |-> t ] >> ] :
             t \in { << "1", ",", "2", "6", "3" >>, << "sup2" >> } }
    ELSE IF operation = "get_page"
    THEN { [ EmptyDoc EXCEPT !.articles = a ] :
             a \in { << >>,
                     << Article(<< POST \o << "5" >> >>,
                                [ hrefs |-> << Some(DetailHref) >>,
                                  imgs |-> << Thumb1 >> ]) >> } }
    ELSE { [ EmptyDoc EXCEPT !.imgs = i ] :
             i \in { << >>,
                     << Img(Some(UploadSrc("n")),
                            Some(<< "a", " ", "1", "w", ",", "b", " ", "2", "w" >>),
                            None) >> } }

\* what an operation computes from the parsed page and its argument: the
\* value it returns, or the exception the parsing raises
parse_outcome(operation, soup, a) ==
    IF operation = "get_total_pages"
    THEN LET numbers == page_numbers(pagination_nav(soup.anchors))
         IN  IF numbers.exc # None THEN numbers
             ELSE [ exc |-> None, value |-> total_pages(numbers.value) ]
    ELSE IF operation = "get_page"
    THEN [ exc |-> None, value |-> images(soup.articles) ]
    ELSE [ exc |-> None, value |-> image_info(soup, a[1]) ]

\* a call that also records the URL in the shared HEADERS
thread_call_sets_referer(t) ==
    /\ calls[t].pc = "idle"
    /\ \E c \in ThreadCalls :
        LET url == thread_url(globals.BASE_URL, c.op, c.arg)
        IN  /\ calls' = [ calls EXCEPT ![t] =
                            [ @ EXCEPT !.pc = "requests_get", !.op = c.op,
                                       !.arg = c.arg, !.url = Some(url) ] ]
            /\ globals' = [ globals EXCEPT !.HEADERS =
                              [ UserAgent |-> @.UserAgent, Referer |-> url ] ]
    /\ UNCHANGED << pc, op, arg, request, fetches, response, exc, result >>

\* thread t enters an operation and builds its URL from BASE_URL
thread_call(t) ==
    /\ calls[t].pc = "idle"
    /\ \E c \in ThreadCalls :
        calls' = [ calls EXCEPT ![t] =
                     [ @ EXCEPT !.pc = "requests_get", !.op = c.op, !.arg = c.arg,
                                !.url = Some(thread_url(globals.BASE_URL,
                                                        c.op, c.arg)) ] ]
    /\ UNCHANGED << pc, op, arg, request, fetches, response, exc, result, globals >>

\* thread t calls requests.get(url, headers=HEADERS)
thread_requests_get(t) ==
    /\ calls[t].pc = "requests_get"
    /\ LET c   == calls[t]
           req == Some([ url |-> c.url[1], headers |-> globals.HEADERS ])
       IN  \/ \E e \in NetworkErrors :
                calls' = [ calls EXCEPT ![t] =
                             [ c EXCEPT !.pc = "raised", !.request = req,
                                        !.fetches = c.fetches + 1,
                                        !.exc = Some(e) ] ]
           \/ \E status \in Statuses :
                \E text \in (IF IsErrorStatus(status) THEN { EmptyDoc }
                             ELSE ConcurrentPages(c.op)) :
                    calls' = [ calls EXCEPT ![t] =
                                 [ c EXCEPT !.pc = "raise_for_status",
                                            !.request = req,
                                            !.fetches = c.fetches + 1,
                                            !.response =
                                                Some([ status |-> status,
                                                       text |-> text ]) ] ]
    /\ UNCHANGED << pc, op, arg, request, fetches, response, exc, result, globals >>

\* thread t calls response.raise_for_status()
thread_raise_for_status(t) ==
    /\ calls[t].pc = "raise_for_status"
    /\ LET c == calls[t]
       IN  calls' = [ calls EXCEPT ![t] =
                        IF IsErrorStatus(c.response[1].status)
                        THEN [ c EXCEPT !.pc = "raised",
                                        !.exc = Some(HTTPError(c.response[1].status)) ]
                        ELSE [ c EXCEPT !.pc = "parse" ] ]
    /\ UNCHANGED << pc, op, arg, request, fetches, response, exc, result, globals >>

\* thread t parses its page and returns, or raises what the parsing raises
thread_parse(t) ==
    /\ calls[t].pc = "parse"
    /\ LET c       == calls[t]
           outcome == parse_outcome(c.op, c.response[1].text, c.arg)
       IN  calls' = [ calls EXCEPT ![t] =
                        IF outcome.exc # None
                        THEN [ c EXCEPT !.pc = "raised", !.exc = outcome.exc ]
                        ELSE [ c EXCEPT !.pc = "returned",
                                        !.result = Some(outcome.value) ] ]
    /\ UNCHANGED << pc, op, arg, request, fetches, response, exc, result, globals >>

NextConcurrent ==
    \E t \in Threads :
        \/ thread_call(t)
        \/ thread_requests_get(t)
        \/ thread_raise_for_status(t)
        \/ thread_parse(t)

SpecConcurrent == Init /\ [][NextConcurrent]_vars

---------------------------------------------------------------------------
(* Properties *)

Returned(operation) == pc = "returned" /\ op = operation

\* the page that was parsed
Soup == response[1].text

\* C1: get_total_pages never returns 0 or a negative number: whatever the
\* texts of the pagination links are, the returned integer is >= 1.
C1_AtLeastOne == Returned("get_total_pages") => result[1] >= 1

C2_Cleaned(a) == Remove(Strip(a.text), ",")

C2_IsCandidate(a) ==
    /\ a.nav
    /\ C2_Cleaned(a) # << >>
    /\ \A i \in 1..Len(C2_Cleaned(a)) : IsDecimal(C2_Cleaned(a)[i])

C2_Candidates(anchors) ==
    { DigitsValue(C2_Cleaned(anchors[i])) :
        i \in { k \in 1..Len(anchors) : C2_IsCandidate(anchors[k]) } }

\* C2: get_total_pages returns the maximum of the candidate page numbers,
\* a candidate being a selected link whose trimmed text without its commas
\* is made of decimal digits only ("1,263" is 1263); with no candidate it
\* returns 1.
C2_MaxCandidate ==
    Returned("get_total_pages") =>
        LET c == C2_Candidates(Soup.anchors)
        IN  IF c = {} THEN result[1] = 1
            ELSE result[1] \in c /\ \A x \in c : x <= result[1]

\* a page with the links "1,263" and "Next" was scanned and gave 1263
C2_Witness ==
    /\ Returned("get_total_pages")
    /\ result[1] = 1263
    /\ \E i \in 1..Len(Soup.anchors) :
        Soup.anchors[i].nav /\ Soup.anchors[i].text = << "N", "e", "x", "t" >>

C3_Matched(imgs) ==
    SelectSeq(imgs, LAMBDA img :
        img.src # None /\ Contains(img.src[1], << "wp-content/uploads" >>))

\* one srcset entry as a (url, width) pair, None when it has no width token
\* after whitespace or the token without its trailing "w" is no integer
C9_EntryParse(piece) ==
    LET e  == Strip(piece)
        ws == { i \in 1..Len(e) : e[i] \in Whitespace }
    IN  IF ws = {} THEN None
        ELSE LET j == CHOOSE k \in ws : \A m \in ws : m <= k
                 w == IntParse(RStripChar(SubSeq(e, j + 1, Len(e)), "w"))
             IN  IF w = None THEN None
                 ELSE Some([ url |-> Strip(SubSeq(e, 1, j)), width |-> w[1] ])

\* the successfully parsed entries of a srcset
C9_Parsed(srcset) ==
    LET pieces == Split(srcset, ",")
    IN  { C9_EntryParse(pieces[i])[1] :
            i \in { k \in 1..Len(pieces) : C9_EntryParse(pieces[k]) # None } }

\* an element whose srcset is absent, empty, whitespace-only, or without a
\* successfully parsed entry
C3_NoUsableSrcset(img) ==
    \/ img.srcset = None
    \/ Strip(img.srcset[1]) = << >>
    \/ C9_Parsed(img.srcset[1]) = {}

\* C3: every matched image element whose srcset is absent, empty,
\* whitespace-only or without a successfully parsed entry gives exactly one
\* variant with url = its src, width None and alt = its alt or "", so that
\* all_images has one entry per matched image element.
C3_FallbackToSrc ==
    Returned("get_image_info") =>
        LET m == C3_Matched(Soup.imgs)
        IN  /\ Len(result[1].all_images) = Len(m)
            /\ \A k \in 1..Len(m) :
                 C3_NoUsableSrcset(m[k]) =>
                    result[1].all_images[k] =
                        [ url |-> m[k].src[1], width |-> None,
                          alt |-> IF m[k].alt = None THEN << >> ELSE m[k].alt[1] ]

\* a class token "post-" followed by decimal digits only
IsPostDigits(token) ==
    /\ StartsWith(token, POST)
    /\ Len(token) > Len(POST)
    /\ \A i \in (Len(POST) + 1)..Len(token) : IsDecimal(token[i])

\* the integer of the first "post-{digits}" token of a class list, if any
RECURSIVE PostDigitsId(_)
PostDigitsId(classes) ==
    IF classes = << >> THEN None
    ELSE IF IsPostDigits(Head(classes))
         THEN Some(DigitsValue(SubSeq(Head(classes), Len(POST) + 1, Len(Head(classes)))))
         ELSE PostDigitsId(Tail(classes))

\* C4: get_image_info returns the caller's image_id only when there is no
\* article or the first article has no token yielding an integer; when the
\* first article has a "post-{digits}" token (0 included), the returned id
\* is that integer.
C4_PostIdWins ==
    Returned("get_image_info") =>
        LET expected == IF Soup.articles = << >> THEN None
                        ELSE PostDigitsId(Head(Soup.articles).class)
        IN  /\ expected # None => result[1].id = expected[1]
            /\ result[1].id = arg[1] => expected = None

\* the piece of a "post-" token after the prefix, up to the next "-"
C5_Piece(token) ==
    LET rest   == SubSeq(token, Len(POST) + 1, Len(token))
        dashes == { i \in 1..Len(rest) : rest[i] = "-" }
    IN  IF dashes = {} THEN rest
        ELSE SubSeq(rest, 1, (CHOOSE i \in dashes : \A j \in dashes : i <= j) - 1)

\* no class token of the list yields an integer
C5_NoIdToken(classes) ==
    \A i \in 1..Len(classes) :
        ~StartsWith(classes[i], POST) \/ IntParse(C5_Piece(classes[i])) = None

\* C5: with no article element, or a first article without a class token
\* yielding an integer, get_image_info returns the caller's image_id; only
\* the first article is consulted, whatever tokens later articles have.
C5_FallbackId ==
    Returned("get_image_info") =>
        ( (Soup.articles = << >> \/ C5_NoIdToken(Head(Soup.articles).class))
            => result[1].id = arg[1] )

\* the first article gives no id, a later one has "post-12", and the id
\* returned is the caller's
C5_Witness ==
    /\ Returned("get_image_info")
    /\ Len(Soup.articles) >= 2
    /\ Head(Soup.articles).class = << POST >>
    /\ \E i \in 2..Len(Soup.articles) :
         Soup.articles[i].class = << POST \o << "1", "2" >> >>
    /\ result[1].id = arg[1]

\* the ids of the articles that have a "post-{digits}" token, in order
RECURSIVE C6_ExpectedIds(_)
C6_ExpectedIds(articles) ==
    IF articles = << >> THEN << >>
    ELSE (IF PostDigitsId(Head(articles).class) # None
          THEN << PostDigitsId(Head(articles).class)[1] >> ELSE << >>)
         \o C6_ExpectedIds(Tail(articles))

\* C6: get_page includes an article if and only if it has a class token
\* "post-" followed by decimal digits only, with the integer of the first
\* such token as id; any other article is skipped.
C6_DigitsOnly ==
    Returned("get_page") =>
        [ k \in 1..Len(result[1]) |-> result[1][k].id ] = C6_ExpectedIds(Soup.articles)

C7_Qualifying(articles) ==
    { i \in 1..Len(articles) : image_id(articles[i].class) # None }

C7_Kth(Q, k) == CHOOSE i \in Q : Cardinality({ j \in Q : j <= i }) = k

\* C7: the entries of get_page are those of the articles that have an id,
\* in document order, without reordering or deduplication and with nothing
\* else; a page without articles gives the empty list.
C7_DocumentOrder ==
    Returned("get_page") =>
        LET Q == C7_Qualifying(Soup.articles)
        IN  /\ Len(result[1]) = Cardinality(Q)
            /\ \A k \in 1..Len(result[1]) :
                 result[1][k] = Entry(Soup.articles[C7_Kth(Q, k)])
            /\ Soup.articles = << >> => result[1] = << >>

\* three articles, the middle one skipped, the outer two with the same id
\* and different thumbnails, gave two entries in document order
C7_Witness ==
    /\ Returned("get_page")
    /\ Len(Soup.articles) = 3
    /\ Len(result[1]) = 2
    /\ result[1][1].id = result[1][2].id
    /\ result[1][1].thumbnail_url = Thumb1.src
    /\ result[1][2].thumbnail_url = Thumb2.src
    /\ image_id(Soup.articles[2].class) = None

\* C8: full_resolution_url is all_images[0].url when all_images is not
\* empty and None when it is.
C8_FullResolutionIsFirst ==
    Returned("get_image_info") =>
        IF result[1].all_images = << >>
        THEN result[1].full_resolution_url = None
        ELSE result[1].full_resolution_url = Some(result[1].all_images[1].url)

\* an image without srcset followed by one with a srcset: two variants of
\* different urls, the first without width
C8_Witness ==
    /\ Returned("get_image_info")
    /\ Len(result[1].all_images) = 2
    /\ result[1].all_images[1].width = None
    /\ result[1].all_images[2].width # None
    /\ result[1].all_images[1].url # result[1].all_images[2].url
    /\ result[1].full_resolution_url = Some(result[1].all_images[1].url)

\* C9: for an image element with a srcset, the variant emitted is one of
\* its successfully parsed entries and no parsed entry of the element is
\* wider; entries that fail to parse are never chosen, and whitespace
\* around the entries does not matter.
C9_WidestParsedEntry ==
    Returned("get_image_info") =>
        LET m == C3_Matched(Soup.imgs)
            found == result[1].all_images
        IN  (\A k \in 1..Len(m) :
                Truthy(m[k].srcset) => C9_Parsed(m[k].srcset[1]) # {})
            => /\ Len(found) = Len(m)
               /\ \A k \in 1..Len(m) :
                    Truthy(m[k].srcset) =>
                        /\ found[k].width # None
                        /\ [ url |-> found[k].url, width |-> found[k].width[1] ]
                              \in C9_Parsed(m[k].srcset[1])
                        /\ \A e \in C9_Parsed(m[k].srcset[1]) :
                              e.width <= found[k].width[1]

\* the srcset "a 1w" then "c 2w" in whitespace gave the variant c of width 2
C9_Witness ==
    /\ Returned("get_image_info")
    /\ Len(Soup.imgs) = 1
    /\ Soup.imgs[1].srcset =
         Some(<< "a", " ", "1", "w", ",", "\n", " ", "c", " ", " ", "2", "w", " " >>)
    /\ Len(result[1].all_images) = 1
    /\ result[1].all_images[1].url = << "c" >>
    /\ result[1].all_images[1].width = Some(2)

\* C10: each operation fetches exactly once and checks the status before
\* it parses; a failure of the fetch or of the status check is raised as it
\* is, nothing is parsed or returned, and there is no second fetch.
C10_FetchOnceErrorPropagates ==
    /\ fetches <= 1
    /\ pc \in { "raise_for_status", "parse", "returned", "raised" } => fetches = 1
    /\ pc \in { "parse", "returned" } =>
         response # None /\ ~IsErrorStatus(response[1].status)
    /\ (pc = "raised" /\ response = None) =>
         /\ \E e \in NetworkErrors : exc = Some(e)
         /\ result = None
    /\ (response # None /\ IsErrorStatus(response[1].status)) =>
         /\ pc \in { "raise_for_status", "raised" }
         /\ pc = "raised" => exc = Some(HTTPError(response[1].status))
         /\ result = None

\* get_image_info ended with the HTTPError of a 404 answer after one fetch
C10_Witness ==
    /\ pc = "raised"
    /\ op = "get_image_info"
    /\ response # None
    /\ response[1].status = 404
    /\ exc = Some(HTTPError(404))
    /\ fetches = 1
    /\ result = None

\* C11: parsing never raises: after a successful fetch each operation
\* returns a value, whatever the document holds.
C11_ParsingNeverRaises ==
    (pc = "raised" /\ response # None) => IsErrorStatus(response[1].status)

\* the URL the claim gives for an operation and its argument
C12_ExpectedUrl ==
    IF op = "get_total_pages" THEN BASE_URL
    ELSE IF op = "get_page"
         THEN (IF arg[1] = 1 THEN BASE_URL
               ELSE BASE_URL \o << "/page/", ToString(arg[1]) >>)
    ELSE BASE_URL \o << "/images/", ToString(arg[1]) >>

\* C12: the URL fetched depends on the operation and its argument only:
\* the base URL for get_total_pages and get_page(1), base URL + "/page/{n}"
\* for get_page(n) with n > 1, base URL + "/images/{id}" for
\* get_image_info(id); every fetch carries HEADERS.
C12_UrlAndHeaders ==
    pc # "idle" =>
        request = Some([ url |-> C12_ExpectedUrl, headers |-> HEADERS ])

\* page 2 was fetched from base URL + "/page/2"
C12_Witness ==
    /\ op = "get_page"
    /\ arg = Some(2)
    /\ fetches = 1
    /\ request[1].url = << "https://windows10spotlight.com", "/page/", "2" >>
    /\ request[1].headers = HEADERS

\* the meta elements that count: property starting with "og:" and a content
\* attribute that is present and not empty
C14_Recorded(metas) ==
    { i \in 1..Len(metas) :
        /\ metas[i].property # None
        /\ Len(metas[i].property[1]) >= 1
        /\ metas[i].property[1][1] = "og:"
        /\ metas[i].content # None
        /\ metas[i].content[1] # << >> }

\* C14: og_metadata holds exactly the pairs property -> content of the meta
\* elements whose property starts with "og:" and whose content is present
\* and not empty; of several elements with one property, the last one in
\* document order that has content is recorded.
C14_OgMetadata ==
    Returned("get_image_info") =>
        LET metas == Soup.metas
            idx   == C14_Recorded(metas)
            og    == result[1].og_metadata
        IN  /\ DOMAIN og = { metas[i].property[1] : i \in idx }
            /\ \A i \in idx :
                 (\A j \in idx : j > i => metas[j].property # metas[i].property)
                    => og[metas[i].property[1]] = metas[i].content[1]

\* og:title "A", og:title "B", og:title without content: "B" is recorded
C14_Witness ==
    /\ Returned("get_image_info")
    /\ Soup.metas = << Meta(Some(<< "og:", "title" >>), Some(<< "A" >>)),
                       Meta(Some(<< "og:", "title" >>), Some(<< "B" >>)),
                       Meta(Some(<< "og:", "title" >>), None) >>
    /\ DOMAIN result[1].og_metadata = { << "og:", "title" >> }
    /\ result[1].og_metadata[<< "og:", "title" >>] = << "B" >>

\* the a elements of an article whose href holds "/images/"
C15_ImageLinks(article) ==
    { i \in 1..Len(article.hrefs) :
        /\ article.hrefs[i] # None
        /\ \E j \in 1..Len(article.hrefs[i][1]) : article.hrefs[i][1][j] = "/images/" }

\* C15: for each article with an id, detail_url is the href of its first
\* link whose href contains "/images/" (None without one), thumbnail_url and
\* thumbnail_hash are the src and alt of its first img (None without an
\* img); a missing link or image does not drop the article.
C15_LinkAndThumbnail ==
    Returned("get_page") =>
        LET Q == C7_Qualifying(Soup.articles)
        IN  /\ Len(result[1]) = Cardinality(Q)
            /\ \A k \in 1..Len(result[1]) :
                 LET a == Soup.articles[C7_Kth(Q, k)]
                     L == C15_ImageLinks(a)
                 IN  /\ result[1][k].detail_url =
                          (IF L = {} THEN None
                           ELSE a.hrefs[CHOOSE i \in L : \A j \in L : i <= j])
                     /\ result[1][k].thumbnail_url =
                          (IF Len(a.imgs) = 0 THEN None ELSE a.imgs[1].src)
                     /\ result[1][k].thumbnail_hash =
                          (IF Len(a.imgs) = 0 THEN None ELSE a.imgs[1].alt)

\* an article whose first link is a tag link and whose first img has neither
\* src nor alt: the later "/images/" link is the detail_url, the thumbnail
\* fields are None although a second img has both
C15_Witness ==
    /\ Returned("get_page")
    /\ Len(result[1]) = 1
    /\ Len(Soup.articles) = 1
    /\ Soup.articles[1].hrefs = << Some(TagHref), None, Some(DetailHref) >>
    /\ Soup.articles[1].imgs = << BareImg, Thumb2 >>
    /\ result[1][1].detail_url = Some(DetailHref)
    /\ result[1][1].thumbnail_url = None
    /\ result[1][1].thumbnail_hash = None

\* the first piece of a srcset, in its order, that parses with the largest
\* width of all pieces that parse
C16_FirstWidest(srcset) ==
    LET pieces == Split(srcset, ",")
        idx    == { k \in 1..Len(pieces) : C9_EntryParse(pieces[k]) # None }
        widest == { k \in idx : \A m \in idx :
                      C9_EntryParse(pieces[m])[1].width <= C9_EntryParse(pieces[k])[1].width }
    IN  C9_EntryParse(pieces[CHOOSE k \in widest : \A m \in widest : k <= m])[1]

\* C16: when several parsed entries of one srcset share the largest width,
\* the variant emitted is the first of them in the srcset.
C16_FirstSeenWins ==
    Returned("get_image_info") =>
        LET m == C3_Matched(Soup.imgs)
            found == result[1].all_images
        IN  (\A k \in 1..Len(m) :
                Truthy(m[k].srcset) => C9_Parsed(m[k].srcset[1]) # {})
            => /\ Len(found) = Len(m)
               /\ \A k \in 1..Len(m) :
                    Truthy(m[k].srcset) =>
                        /\ found[k].url = C16_FirstWidest(m[k].srcset[1]).url
                        /\ found[k].width = Some(C16_FirstWidest(m[k].srcset[1]).width)

\* the srcset "b 2w" then "c 2w": two entries of width 2, b is emitted
C16_Witness ==
    /\ Returned("get_image_info")
    /\ Len(Soup.imgs) = 1
    /\ Soup.imgs[1].srcset =
         Some(<< "b", " ", "2", "w", ",", "\n", " ", "c", " ", " ", "2", "w", " " >>)
    /\ Len(result[1].all_images) = 1
    /\ result[1].all_images[1].url = << "b" >>
    /\ result[1].all_images[1].width = Some(2)

\* variant v can come from img element e: e's src holds "wp-content/uploads",
\* v's alt is e's alt or "", and v is e's src without width or a parsed
\* entry of e's srcset
C17_ComesFrom(v, e) ==
    /\ e.src # None
    /\ \E j \in 1..Len(e.src[1]) : e.src[1][j] = "wp-content/uploads"
    /\ v.alt = (IF e.alt = None THEN << >> ELSE e.alt[1])
    /\ \/ v.width = None /\ v.url = e.src[1]
       \/ /\ v.width # None
          /\ e.srcset # None
          /\ [ url |-> v.url, width |-> v.width[1] ] \in C9_Parsed(e.srcset[1])

\* C17: all_images lists the variants in the document order of the image
\* elements they come from and is not sorted by width: only elements whose
\* src contains "wp-content/uploads" (case-sensitive) contribute, each at
\* most once, an earlier element before a later one, with the element's
\* alt or "".
C17_DocumentOrderOfImages ==
    Returned("get_image_info") =>
        LET imgs  == Soup.imgs
            found == result[1].all_images
        IN  \E f \in [ 1..Len(found) -> 1..Len(imgs) ] :
                /\ \A k \in 1..Len(found) : C17_ComesFrom(found[k], imgs[f[k]])
                /\ \A k \in 1..(Len(found) - 1) : f[k] < f[k + 1]

\* an img with an upper-case path, one without srcset, one with a srcset of
\* width 2: two variants, the one without width first
C17_Witness ==
    /\ Returned("get_image_info")
    /\ Len(Soup.imgs) = 3
    /\ Soup.imgs[1].src = Some(<< "https://site/", "WP-CONTENT/UPLOADS", "/", "p" >>)
    /\ Len(result[1].all_images) = 2
    /\ result[1].all_images[1] =
         [ url |-> UploadSrc("m"), width |-> None, alt |-> << "x" >> ]
    /\ result[1].all_images[2] =
         [ url |-> << "b" >>, width |-> Some(2), alt |-> << >> ]

\* C18: date and datetime come from the first time element whenever there
\* is one (its trimmed text, its datetime attribute or None), from the first
\* "date"-class element only when there is no time element, and are both
\* None when there is neither; both come from the same element.
C18_DateFromTimeFirst ==
    Returned("get_image_info") =>
        LET e == IF Len(Soup.times) > 0 THEN Some(Soup.times[1])
                 ELSE IF Len(Soup.dates) > 0 THEN Some(Soup.dates[1])
                 ELSE None
        IN  IF e = None
            THEN result[1].date = None /\ result[1].datetime = None
            ELSE /\ result[1].date = Some(Strip(e[1].text))
                 /\ result[1].datetime = e[1].datetime

\* a time element " Feb" without datetime before a span.date "Jan" with one:
\* the date is "Feb" and the datetime is None
C18_Witness ==
    /\ Returned("get_image_info")
    /\ Len(Soup.times) >= 1
    /\ Len(Soup.dates) >= 1
    /\ Soup.times[1] = Time(<< " ", "F", "e", "b", "\n" >>, None)
    /\ Soup.dates[1] = Time(<< "J", "a", "n" >>, Some(<< "2024" >>))
    /\ result[1].date = Some(<< "F", "e", "b" >>)
    /\ result[1].datetime = None

\* C19: the title is the trimmed text of the first h1 whenever there is an
\* h1 (even one without text), the trimmed text of the first h2 only when
\* there is no h1, and None only when there is neither.
C19_TitleFromH1First ==
    Returned("get_image_info") =>
        IF Len(Soup.h1) > 0 THEN result[1].title = Some(Strip(Soup.h1[1]))
        ELSE IF Len(Soup.h2) > 0 THEN result[1].title = Some(Strip(Soup.h2[1]))
        ELSE result[1].title = None

\* an h1 without text and an h2 "U": the title is the empty string
C19_Witness ==
    /\ Returned("get_image_info")
    /\ Len(Soup.h1) >= 1
    /\ Soup.h1[1] = << >>
    /\ Len(Soup.h2) >= 1
    /\ Soup.h2[1] = << "U" >>
    /\ result[1].title = Some(<< >>)

\* a width token made of decimal digits followed by exactly one "w"
C20_IsWidthToken(token) ==
    /\ Len(token) >= 2
    /\ token[Len(token)] = "w"
    /\ \A i \in 1..(Len(token) - 1) : IsDecimal(token[i])

\* the (url, width) pairs of the srcset entries that end in such a token
C20_Parsed(srcset) ==
    LET pieces == Split(srcset, ",")
        Token(p) ==
            LET e  == Strip(p)
                ws == { i \in 1..Len(e) : e[i] \in Whitespace }
                j  == CHOOSE k \in ws : \A m \in ws : m <= k
            IN  IF ws = {} THEN None
                ELSE IF ~C20_IsWidthToken(SubSeq(e, j + 1, Len(e))) THEN None
                ELSE Some([ url |-> Strip(SubSeq(e, 1, j)),
                            width |-> DigitsValue(SubSeq(e, j + 1, Len(e) - 1)) ])
    IN  { Token(pieces[i])[1] : i \in { k \in 1..Len(pieces) : Token(pieces[k]) # None } }

\* C20: the width of every variant is None (the url being the element's
\* src) or the integer of a srcset width token made of decimal digits and
\* exactly one trailing "w"; entries with a token of another shape are
\* discarded, so no width is negative.
C20_WidthFromDigitsW ==
    Returned("get_image_info") =>
        \A k \in 1..Len(result[1].all_images) :
            LET v == result[1].all_images[k]
            IN  \/ /\ v.width = None
                   /\ \E i \in 1..Len(Soup.imgs) : Soup.imgs[i].src = Some(v.url)
                \/ /\ v.width # None
                   /\ v.width[1] >= 0
                   /\ \E i \in 1..Len(Soup.imgs) :
                        /\ Soup.imgs[i].srcset # None
                        /\ [ url |-> v.url, width |-> v.width[1] ]
                              \in C20_Parsed(Soup.imgs[i].srcset[1])

\* the value the call of thread t returns when it runs alone on the page it
\* was answered with: the sequential operation applied to that page
C13_Alone(t) ==
    LET c    == calls[t]
        soup == c.response[1].text
    IN  IF c.op = "get_total_pages"
        THEN total_pages(page_numbers(pagination_nav(soup.anchors)).value)
        ELSE IF c.op = "get_page" THEN images(soup.articles)
        ELSE image_info(soup, c.arg[1])

\* the URL the call of thread t requests when it runs alone
C13_AloneUrl(t) ==
    LET c == calls[t]
    IN  IF c.op = "get_total_pages" THEN BASE_URL
        ELSE IF c.op = "get_page" THEN page_url(c.arg[1])
        ELSE image_url(c.arg[1])

\* C13: under every interleaving of concurrent calls the module-level
\* BASE_URL and HEADERS keep their values, every call sends the request it
\* sends when run alone, and every call that returns returns the value it
\* returns when run alone on the same page.
C13_ConcurrentCallsIndependent ==
    /\ globals = ModuleGlobals
    /\ \A t \in Threads :
        /\ calls[t].request # None
            => calls[t].request = Some(Request(C13_AloneUrl(t)))
        /\ calls[t].pc = "returned"
            => calls[t].result = Some(C13_Alone(t))

\* two calls of different operations have run interleaved and both returned
C13_Witness ==
    /\ calls[1].pc = "returned"
    /\ calls[1].op = "get_page"
    /\ calls[1].result[1] # << >>
    /\ calls[2].pc = "returned"
    /\ calls[2].op = "get_image_info"
    /\ globals = ModuleGlobals

====
